---- MODULE Spec2Model ----
(***************************************************************************)
(* A model of nfl_upload.py: the one-shot loader that reads a schedule     *)
(* table, validates it (columns, game types, team references) and inserts  *)
(* its rows into the games table inside one transaction.                   *)
(*                                                                         *)
(* Three specifications share the module:                                  *)
(*   Spec         a run of main(), the upload loop and the database        *)
(*                connection included;                                     *)
(*   SpecColumns  validate_excel_columns applied to every column set;      *)
(*   SpecTeams    get_team_lookup followed by validate_teams_exist,        *)
(*                applied to bounded team directories and tables.          *)
(***************************************************************************)
EXTENDS Integers, Sequences, FiniteSets, TLC

VARIABLES
    \* ---- main() and upload_games_to_database() ----
    pc,             \* position of the run
    nrows,          \* len(df)
    connection,     \* "none" | "open" | "closed": the pymysql connection object
    connAlive,      \* whether the server side of the connection still answers
    team_lookup,    \* abbreviation -> team_id, as built by get_team_lookup
    passed,         \* the phases of main that have succeeded, in order
    failure,        \* why the run failed ("none" while it has not)
    exitCode,       \* -1 while running, then the process exit status
    summary,        \* whether the final summary was printed
    cursor,         \* "none" | "open" | "closed": the loader's cursor
    idx,            \* 1-based index of the next row of the load loop
    success_count,
    error_count,
    errors,         \* the loader's list of failure descriptions
    log,            \* what happened to each row the loop took, in order
    txRows,         \* rows inserted in the open transaction, not yet durable
    games,          \* rows of the games table made durable by this run
    commitCalls,
    rollbackCalls,
    uploadResult,   \* how upload_games_to_database left: return value or raise
    \* ---- validate_excel_columns alone ----
    c_pc, c_columns, c_result,
    \* ---- get_team_lookup + validate_teams_exist alone ----
    t_pc, t_directory, t_rows, t_lookup, t_result

mainVars == <<pc, nrows, connection, connAlive, team_lookup, passed, failure,
              exitCode, summary, cursor, idx, success_count, error_count, errors,
              log, txRows, games, commitCalls, rollbackCalls, uploadResult>>
colVars == <<c_pc, c_columns, c_result>>
teamVars == <<t_pc, t_directory, t_rows, t_lookup, t_result>>
vars == <<mainVars, colVars, teamVars>>

(***************************************************************************)
(* Bounds of the model.                                                    *)
(***************************************************************************)
\* most rows of a table read by main()
MainMaxRows == 5
\* team ids of the directory and of the rows are 1..MaxTeamId
MaxTeamId == 2
\* most rows of a table whose sides range over every (id, code) pair
TeamMaxRows == 2
\* most rows of a table built from BulkRowShapes (enough for more than ten errors)
BulkMaxRows == 6

Abbreviations == {"BUF", "KC"}
ExtraColumns == {"notes", "venue"}

Min(a, b) == IF a < b THEN a ELSE b
Max(a, b) == IF a > b THEN a ELSE b
Range(s) == {s[i] : i \in DOMAIN s}

(***************************************************************************)
(* validate_excel_columns                                                  *)
(***************************************************************************)
required_columns ==
    << "nfl_game_id", "season_year", "week", "game_type",
       "home_team_id", "home_team", "away_team_id", "away_team",
       "game_date", "game_time_et" >>

AllColumns == Range(required_columns) \cup ExtraColumns

\* a validator that stops at the first missing column
missing_columns_first(columns) ==
    LET m == SelectSeq(required_columns, LAMBDA col : col \notin columns)
    IN  IF m = << >> THEN m ELSE << Head(m) >>

\* [col for col in required_columns if col not in df.columns]
missing_columns(columns) ==
    SelectSeq(required_columns, LAMBDA col : col \notin columns)

validate_excel_columns(columns) ==
    LET missing == missing_columns(columns)
    IN  IF missing /= << >>
        THEN [kind |-> "raise", missing |-> missing]
        ELSE [kind |-> "return", missing |-> << >>]

(***************************************************************************)
(* validate_game_types                                                     *)
(***************************************************************************)
valid_types == {"regular", "wildcard", "divisional", "conference", "superbowl"}

\* values a game_type cell is drawn from: the enumeration and one outsider
GameTypeValues == valid_types \cup {"preseason"}

\* df[~df['game_type'].isin(valid_types)]['game_type'].unique()
invalid_types(game_type) == Range(game_type) \ valid_types

validate_game_types(game_type) ==
    IF Cardinality(invalid_types(game_type)) > 0
    THEN [kind |-> "raise", invalid |-> invalid_types(game_type)]
    ELSE [kind |-> "return", invalid |-> {}]

(***************************************************************************)
(* get_team_lookup and validate_teams_exist                                *)
(***************************************************************************)
TeamIds == 1..MaxTeamId

\* a row of "SELECT team_id, abbreviation FROM teams WHERE active = TRUE"
DirectoryRows == [team_id : TeamIds, abbreviation : Abbreviations]

\* the query's results: active teams in the order the server returns them
\* (no ORDER BY), team_id being the table's key
Directories ==
    {d \in UNION {[1..n -> DirectoryRows] : n \in 0..MaxTeamId} :
        \A i, j \in DOMAIN d : i /= j => d[i].team_id /= d[j].team_id}

dict_put(d, k, v) == [x \in (DOMAIN d) \cup {k} |-> IF x = k THEN v ELSE d[x]]

RECURSIVE dict_from_rows(_, _)
dict_from_rows(rows, d) ==
    IF rows = << >> THEN d
    ELSE dict_from_rows(Tail(rows),
                        dict_put(d, Head(rows).abbreviation, Head(rows).team_id))

\* {abbr: team_id for team_id, abbr in cursor.fetchall()}: a later row with the
\* same abbreviation overwrites an earlier one
get_team_lookup(directory) == dict_from_rows(directory, << >>)

\* {team_id: abbr for abbr, team_id in team_lookup.items()}; the values of
\* team_lookup are distinct team ids, so no entry of the inverse is overwritten
team_id_lookup(lookup) ==
    [id \in {lookup[a] : a \in DOMAIN lookup} |->
        CHOOSE a \in DOMAIN lookup : lookup[a] = id]

\* the if/elif of one side of one row ("Row {index + 2}", index 0-based)
side_errors(i, side, id, abbr, id_lookup) ==
    IF id \notin DOMAIN id_lookup
    THEN << [row |-> i + 1, side |-> side, kind |-> "not_found",
             team_id |-> id, supplied |-> abbr, expected |-> "none"] >>
    ELSE IF id_lookup[id] /= abbr
    THEN << [row |-> i + 1, side |-> side, kind |-> "mismatch",
             team_id |-> id, supplied |-> abbr, expected |-> id_lookup[id]] >>
    ELSE << >>

\* a loop body that skips the away side once the home side has a problem
row_errors_first_problem(i, row, id_lookup) ==
    LET home == side_errors(i, "Home", row.home_team_id, row.home_team, id_lookup)
    IN  IF home /= << >> THEN home
        ELSE side_errors(i, "Away", row.away_team_id, row.away_team, id_lookup)

\* the body of "for index, row in df.iterrows()"
row_errors(i, row, id_lookup) ==
    side_errors(i, "Home", row.home_team_id, row.home_team, id_lookup)
    \o side_errors(i, "Away", row.away_team_id, row.away_team, id_lookup)

RECURSIVE team_errors(_, _, _)
team_errors(rows, i, id_lookup) ==
    IF i > Len(rows) THEN << >>
    ELSE row_errors(i, rows[i], id_lookup) \o team_errors(rows, i + 1, id_lookup)

\* entries of the error list that are printed
DisplayCap == 10

validate_teams_exist(rows, lookup) ==
    LET errs == team_errors(rows, 1, team_id_lookup(lookup))
    IN  IF errs /= << >>
        THEN [kind |-> "raise", count |-> Len(errs), errors |-> errs,
              shown |-> SubSeq(errs, 1, Min(DisplayCap, Len(errs))),
              more |-> Max(0, Len(errs) - DisplayCap)]
        ELSE [kind |-> "return", count |-> 0, errors |-> << >>,
              shown |-> << >>, more |-> 0]

\* the team columns of one row
TeamRows == [home_team_id : TeamIds, home_team : Abbreviations,
             away_team_id : TeamIds, away_team : Abbreviations]


\* tables whose rows take one of three shapes: long enough for more than
\* DisplayCap errors
BulkRowShapes ==
    { [home_team_id |-> 1, home_team |-> "BUF", away_team_id |-> 2, away_team |-> "KC"],
      [home_team_id |-> 2, home_team |-> "BUF", away_team_id |-> 1, away_team |-> "KC"],
      [home_team_id |-> 1, home_team |-> "KC", away_team_id |-> 1, away_team |-> "BUF"] }

(***************************************************************************)
(* calculate_kickoff_timestamp: a value, or None when parsing or combining *)
(* the row's date and time raises.  The row's date/time cells are either   *)
(* parsable or not; the arithmetic of the conversion is not modelled.      *)
(***************************************************************************)
\* a deriver that hands back a timestamp whatever the cells hold
calculate_kickoff_timestamp_never_none(date_time) == "utc_datetime"

calculate_kickoff_timestamp(date_time) ==
    IF date_time = "parsable" THEN "utc_datetime" ELSE "None"

\* what the load loop reads of a row: its date/time cells, and whether int()
\* of its season_year and week cells succeeds
RowInputs == [date_time : {"parsable", "unparsable"}, numbers : {"int", "nan"}]

\* cursor.execute(insert_query, data): the insert succeeds, or raises for the
\* row (a duplicate key), or raises because the transaction mechanism fails:
\* with the connection still usable (a lock wait timeout) or lost
ExecOutcomes(alive) ==
    IF alive THEN {"ok", "row_error", "tx_fault", "conn_lost"} ELSE {"conn_lost"}

\* connection.commit()
CommitOutcomes(alive) ==
    IF alive THEN {"ok", "raise", "conn_lost"} ELSE {"conn_lost"}

\* the two counts returned in the wrong order
upload_return_swapped(s, e) == << e, s >>

\* return success_count, error_count
upload_return(s, e) == << s, e >>

loadVars == <<cursor, idx, success_count, error_count, errors, log, txRows,
              games, commitCalls, rollbackCalls, uploadResult>>

NoResult == [kind |-> "none", value |-> << >>]

InitMain ==
    /\ pc = "start"
    /\ nrows = 0
    /\ connection = "none"
    /\ connAlive = FALSE
    /\ team_lookup = << >>
    /\ passed = << >>
    /\ failure = "none"
    /\ exitCode = -1
    /\ summary = FALSE
    /\ cursor = "none"
    /\ idx = 1
    /\ success_count = 0
    /\ error_count = 0
    /\ errors = << >>
    /\ log = << >>
    /\ txRows = << >>
    /\ games = {}
    /\ commitCalls = 0
    /\ rollbackCalls = 0
    /\ uploadResult = NoResult

InitColumnsIdle == c_pc = "idle" /\ c_columns = {} /\ c_result = NoResult
InitTeamsIdle ==
    /\ t_pc = "idle"
    /\ t_directory = << >>
    /\ t_rows = << >>
    /\ t_lookup = << >>
    /\ t_result = NoResult

Init == InitMain /\ InitColumnsIdle /\ InitTeamsIdle

(***************************************************************************)
(* main()                                                                  *)
(***************************************************************************)
\* if len(sys.argv) != 2: usage, sys.exit(1)
Main_CheckArgs ==
    /\ pc = "start"
    /\ \E argc \in {1, 2, 3} :
        IF argc /= 2
        THEN pc' = "exited" /\ exitCode' = 1 /\ failure' = "usage"
        ELSE pc' = "check_file" /\ UNCHANGED <<exitCode, failure>>
    /\ UNCHANGED <<nrows, connection, connAlive, team_lookup, passed, summary>>
    /\ UNCHANGED <<loadVars, colVars, teamVars>>

\* if not os.path.exists(...): sys.exit(1); SystemExit is no Exception, so
\* the except clause of main lets it through
Main_CheckFile ==
    /\ pc = "check_file"
    /\ \E exists \in BOOLEAN :
        IF ~exists
        THEN pc' = "exited" /\ exitCode' = 1 /\ failure' = "file_not_found"
        ELSE pc' = "read" /\ UNCHANGED <<exitCode, failure>>
    /\ UNCHANGED <<nrows, connection, connAlive, team_lookup, passed, summary>>
    /\ UNCHANGED <<loadVars, colVars, teamVars>>

\* df = pd.read_excel(...): a table of some length, or an exception
Main_ReadExcel ==
    /\ pc = "read"
    /\ \/ /\ \E n \in 0..MainMaxRows : nrows' = n
          /\ pc' = "validate_columns"
          /\ passed' = Append(passed, "read_excel")
          /\ UNCHANGED failure
       \/ /\ pc' = "except"
          /\ failure' = "read_error"
          /\ UNCHANGED <<nrows, passed>>
    /\ UNCHANGED <<connection, connAlive, team_lookup, exitCode, summary>>
    /\ UNCHANGED <<loadVars, colVars, teamVars>>

\* validate_excel_columns(df)
Main_ValidateColumns ==
    /\ pc = "validate_columns"
    /\ \E columns \in SUBSET AllColumns :
        IF validate_excel_columns(columns).kind = "raise"
        THEN pc' = "except" /\ failure' = "missing_columns" /\ UNCHANGED passed
        ELSE /\ pc' = "validate_types"
             /\ passed' = Append(passed, "validate_excel_columns")
             /\ UNCHANGED failure
    /\ UNCHANGED <<nrows, connection, connAlive, team_lookup, exitCode, summary>>
    /\ UNCHANGED <<loadVars, colVars, teamVars>>

\* validate_game_types(df)
Main_ValidateGameTypes ==
    /\ pc = "validate_types"
    /\ \E game_type \in [1..nrows -> GameTypeValues] :
        IF validate_game_types(game_type).kind = "raise"
        THEN pc' = "except" /\ failure' = "invalid_game_type" /\ UNCHANGED passed
        ELSE /\ pc' = "connect"
             /\ passed' = Append(passed, "validate_game_types")
             /\ UNCHANGED failure
    /\ UNCHANGED <<nrows, connection, connAlive, team_lookup, exitCode, summary>>
    /\ UNCHANGED <<loadVars, colVars, teamVars>>

\* connection = connect_to_database(): the connection, or the exception of
\* pymysql.connect re-raised
Main_Connect ==
    /\ pc = "connect"
    /\ \/ /\ connection' = "open"
          /\ connAlive' = TRUE
          /\ pc' = "lookup"
          /\ passed' = Append(passed, "connect_to_database")
          /\ UNCHANGED failure
       \/ /\ pc' = "except"
          /\ failure' = "connection"
          /\ UNCHANGED <<connection, connAlive, passed>>
    /\ UNCHANGED <<nrows, team_lookup, exitCode, summary>>
    /\ UNCHANGED <<loadVars, colVars, teamVars>>

\* team_lookup = get_team_lookup(connection): the query answers or raises
Main_GetTeamLookup ==
    /\ pc = "lookup"
    /\ \/ /\ \E directory \in Directories :
                team_lookup' = get_team_lookup(directory)
          /\ pc' = "validate_teams"
          /\ passed' = Append(passed, "get_team_lookup")
          /\ UNCHANGED failure
       \/ /\ pc' = "except"
          /\ failure' = "team_lookup"
          /\ UNCHANGED <<team_lookup, passed>>
    /\ UNCHANGED <<nrows, connection, connAlive, exitCode, summary>>
    /\ UNCHANGED <<loadVars, colVars, teamVars>>

\* the same step with the raise of validate_teams_exist left out
Main_ValidateTeams_NoRaise ==
    /\ pc = "validate_teams"
    /\ \E rows \in [1..nrows -> BulkRowShapes] :
        /\ failure' = IF validate_teams_exist(rows, team_lookup).kind = "raise"
                      THEN "team_reference" ELSE failure
        /\ pc' = "upload"
        /\ passed' = Append(passed, "validate_teams_exist")
    /\ UNCHANGED <<nrows, connection, connAlive, team_lookup, exitCode, summary>>
    /\ UNCHANGED <<loadVars, colVars, teamVars>>

\* validate_teams_exist(df, team_lookup)
Main_ValidateTeams ==
    /\ pc = "validate_teams"
    /\ \E rows \in [1..nrows -> BulkRowShapes] :
        IF validate_teams_exist(rows, team_lookup).kind = "raise"
        THEN pc' = "except" /\ failure' = "team_reference" /\ UNCHANGED passed
        ELSE /\ pc' = "upload"
             /\ passed' = Append(passed, "validate_teams_exist")
             /\ UNCHANGED failure
    /\ UNCHANGED <<nrows, connection, connAlive, team_lookup, exitCode, summary>>
    /\ UNCHANGED <<loadVars, colVars, teamVars>>


(***************************************************************************)
(* upload_games_to_database(df, connection)                                *)
(***************************************************************************)
\* cursor = connection.cursor(); success_count = 0; error_count = 0; errors = []
Upload_Begin ==
    /\ pc = "upload"
    /\ cursor' = "open"
    /\ idx' = 1
    /\ success_count' = 0
    /\ error_count' = 0
    /\ errors' = << >>
    /\ pc' = "upload_loop"
    /\ UNCHANGED <<log, txRows, games, commitCalls, rollbackCalls, uploadResult>>
    /\ UNCHANGED <<nrows, connection, connAlive, team_lookup, passed, failure,
                   exitCode, summary>>
    /\ UNCHANGED <<colVars, teamVars>>

\* one pass of "for index, row in df.iterrows()": the inner try and its
\* "except Exception", which catches whatever the pass raises
Upload_Row ==
    /\ pc = "upload_loop"
    /\ idx <= nrows
    /\ \E row \in RowInputs, ex \in ExecOutcomes(connAlive) :
        LET kickoff_timestamp == calculate_kickoff_timestamp(row.date_time)
        IN  IF kickoff_timestamp = "None"
            THEN \* error_count += 1; errors.append(...); continue
                 /\ error_count' = error_count + 1
                 /\ errors' = Append(errors, [row |-> idx + 1, what |-> "kickoff"])
                 /\ log' = Append(log, [row |-> idx, date_time |-> row.date_time,
                                        numbers |-> row.numbers, insert |-> "none"])
                 /\ UNCHANGED <<success_count, txRows, connAlive>>
            ELSE IF row.numbers = "nan"
            THEN \* int(row[...]) raises before the insert: caught for the row
                 /\ error_count' = error_count + 1
                 /\ errors' = Append(errors, [row |-> idx + 1, what |-> "exception"])
                 /\ log' = Append(log, [row |-> idx, date_time |-> row.date_time,
                                        numbers |-> row.numbers, insert |-> "none"])
                 /\ UNCHANGED <<success_count, txRows, connAlive>>
            ELSE IF ex = "ok"
            THEN \* cursor.execute(insert_query, data); success_count += 1
                 /\ success_count' = success_count + 1
                 /\ txRows' = Append(txRows, [row |-> idx, status |-> "scheduled"])
                 /\ log' = Append(log, [row |-> idx, date_time |-> row.date_time,
                                        numbers |-> row.numbers, insert |-> "ok"])
                 /\ UNCHANGED <<error_count, errors, connAlive>>
            ELSE \* cursor.execute raises: caught for the row, whatever raised
                 /\ error_count' = error_count + 1
                 /\ errors' = Append(errors, [row |-> idx + 1, what |-> "exception"])
                 /\ log' = Append(log, [row |-> idx, date_time |-> row.date_time,
                                        numbers |-> row.numbers, insert |-> ex])
                 /\ connAlive' = IF ex = "conn_lost" THEN FALSE ELSE connAlive
                 /\ txRows' = IF ex = "conn_lost" THEN << >> ELSE txRows
                 /\ UNCHANGED success_count
    /\ idx' = idx + 1
    /\ UNCHANGED <<pc, cursor, games, commitCalls, rollbackCalls, uploadResult>>
    /\ UNCHANGED <<nrows, connection, team_lookup, passed, failure, exitCode, summary>>
    /\ UNCHANGED <<colVars, teamVars>>

\* connection.commit() after the loop, the report, and the return; a commit
\* that raises enters the outer "except Exception"
Upload_Commit ==
    /\ pc = "upload_loop"
    /\ idx > nrows
    /\ commitCalls' = commitCalls + 1
    /\ \E c \in CommitOutcomes(connAlive) :
        IF c = "ok"
        THEN /\ games' = games \cup Range(txRows)
             /\ txRows' = << >>
             /\ uploadResult' = [kind |-> "return",
                                 value |-> upload_return(success_count, error_count)]
             /\ pc' = "upload_finally"
             /\ UNCHANGED connAlive
        ELSE /\ connAlive' = IF c = "conn_lost" THEN FALSE ELSE connAlive
             /\ txRows' = IF c = "conn_lost" THEN << >> ELSE txRows
             /\ pc' = "upload_except"
             /\ UNCHANGED <<games, uploadResult>>
    /\ UNCHANGED <<cursor, idx, success_count, error_count, errors, log, rollbackCalls>>
    /\ UNCHANGED <<nrows, connection, team_lookup, passed, failure, exitCode, summary>>
    /\ UNCHANGED <<colVars, teamVars>>

\* except Exception: connection.rollback(); print; raise.  On a lost
\* connection rollback raises itself: an exception leaves either way
Upload_Rollback ==
    /\ pc = "upload_except"
    /\ rollbackCalls' = rollbackCalls + 1
    /\ txRows' = IF connAlive THEN << >> ELSE txRows
    /\ uploadResult' = [kind |-> "raise", value |-> << >>]
    /\ pc' = "upload_finally"
    /\ UNCHANGED <<cursor, idx, success_count, error_count, errors, log, games,
                   commitCalls>>
    /\ UNCHANGED <<nrows, connection, connAlive, team_lookup, passed, failure,
                   exitCode, summary>>
    /\ UNCHANGED <<colVars, teamVars>>

\* the same step with cursor.close() after the return instead of in finally
Upload_Finally_ReturnOnly ==
    /\ pc = "upload_finally"
    /\ cursor' = IF uploadResult.kind = "return" THEN "closed" ELSE cursor
    /\ IF uploadResult.kind = "return"
       THEN pc' = "close" /\ passed' = Append(passed, "upload_games_to_database")
                          /\ UNCHANGED failure
       ELSE pc' = "except" /\ failure' = "load" /\ UNCHANGED passed
    /\ UNCHANGED <<idx, success_count, error_count, errors, log, txRows, games,
                   commitCalls, rollbackCalls, uploadResult>>
    /\ UNCHANGED <<nrows, connection, connAlive, team_lookup, exitCode, summary>>
    /\ UNCHANGED <<colVars, teamVars>>

\* finally: cursor.close(); then the function leaves, to main's next
\* statement or to main's except clause
Upload_Finally ==
    /\ pc = "upload_finally"
    /\ cursor' = "closed"
    /\ IF uploadResult.kind = "return"
       THEN pc' = "close" /\ passed' = Append(passed, "upload_games_to_database")
                          /\ UNCHANGED failure
       ELSE pc' = "except" /\ failure' = "load" /\ UNCHANGED passed
    /\ UNCHANGED <<idx, success_count, error_count, errors, log, txRows, games,
                   commitCalls, rollbackCalls, uploadResult>>
    /\ UNCHANGED <<nrows, connection, connAlive, team_lookup, exitCode, summary>>
    /\ UNCHANGED <<colVars, teamVars>>

(***************************************************************************)
(* main(), after the load                                                  *)
(***************************************************************************)
\* connection.close()
Main_Close ==
    /\ pc = "close"
    /\ connection' = "closed"
    /\ connAlive' = FALSE
    /\ pc' = "summary"
    /\ UNCHANGED <<nrows, team_lookup, passed, failure, exitCode, summary>>
    /\ UNCHANGED <<loadVars, colVars, teamVars>>

\* the final summary; main returns and the interpreter exits with status 0
Main_Summary ==
    /\ pc = "summary"
    /\ summary' = TRUE
    /\ exitCode' = 0
    /\ pc' = "exited"
    /\ UNCHANGED <<nrows, connection, connAlive, team_lookup, passed, failure>>
    /\ UNCHANGED <<loadVars, colVars, teamVars>>

\* the same clause without its sys.exit(1): main returns, status 0
Main_Except_NoExit ==
    /\ pc = "except"
    /\ exitCode' = 0
    /\ pc' = "exited"
    /\ UNCHANGED <<nrows, connection, connAlive, team_lookup, passed, failure, summary>>
    /\ UNCHANGED <<loadVars, colVars, teamVars>>

\* except Exception as e: print("Upload failed"); sys.exit(1)
Main_Except ==
    /\ pc = "except"
    /\ exitCode' = 1
    /\ pc' = "exited"
    /\ UNCHANGED <<nrows, connection, connAlive, team_lookup, passed, failure, summary>>
    /\ UNCHANGED <<loadVars, colVars, teamVars>>

Next ==
    \/ Main_CheckArgs
    \/ Main_CheckFile
    \/ Main_ReadExcel
    \/ Main_ValidateColumns
    \/ Main_ValidateGameTypes
    \/ Main_Connect
    \/ Main_GetTeamLookup
    \/ Main_ValidateTeams
    \/ Upload_Begin
    \/ Upload_Row
    \/ Upload_Commit
    \/ Upload_Rollback
    \/ Upload_Finally
    \/ Main_Close
    \/ Main_Summary
    \/ Main_Except

Spec == Init /\ [][Next]_vars


(***************************************************************************)
(* validate_excel_columns applied to one table's columns                   *)
(***************************************************************************)
InitColumns ==
    /\ c_pc = "call"
    /\ c_columns \in SUBSET AllColumns
    /\ c_result = NoResult

Columns_Validate ==
    /\ c_pc = "call"
    /\ c_result' = validate_excel_columns(c_columns)
    /\ c_pc' = "done"
    /\ UNCHANGED <<c_columns, mainVars, teamVars>>

NextColumns == Columns_Validate

InitColumnsSpec == InitMain /\ InitColumns /\ InitTeamsIdle

SpecColumns == InitColumnsSpec /\ [][NextColumns]_vars

(***************************************************************************)
(* get_team_lookup, then validate_teams_exist, applied to one directory    *)
(* and one table                                                           *)
(***************************************************************************)
TeamTables ==
    UNION {[1..n -> TeamRows] : n \in 0..TeamMaxRows}
    \cup UNION {[1..n -> BulkRowShapes] : n \in 0..BulkMaxRows}

InitTeams ==
    /\ t_pc = "lookup"
    /\ t_directory \in Directories
    /\ t_rows \in TeamTables
    /\ t_lookup = << >>
    /\ t_result = NoResult

Teams_GetLookup ==
    /\ t_pc = "lookup"
    /\ t_lookup' = get_team_lookup(t_directory)
    /\ t_pc' = "validate"
    /\ UNCHANGED <<t_directory, t_rows, t_result, mainVars, colVars>>

Teams_Validate ==
    /\ t_pc = "validate"
    /\ t_result' = validate_teams_exist(t_rows, t_lookup)
    /\ t_pc' = "done"
    /\ UNCHANGED <<t_directory, t_rows, t_lookup, mainVars, colVars>>

NextTeams == Teams_GetLookup \/ Teams_Validate

InitTeamsSpec == InitMain /\ InitColumnsIdle /\ InitTeams

SpecTeams == InitTeamsSpec /\ [][NextTeams]_vars


(***************************************************************************)
(* Properties of a run of main (specification Spec)                        *)
(***************************************************************************)
ValidationFailures ==
    {"missing_columns", "invalid_game_type", "connection", "team_lookup",
     "team_reference"}

ValidationPhases ==
    << "read_excel", "validate_excel_columns", "validate_game_types",
       "connect_to_database", "get_team_lookup", "validate_teams_exist" >>

LoaderReached ==
    \/ pc \in {"upload", "upload_loop", "upload_except", "upload_finally"}
    \/ cursor /= "none"
    \/ Len(log) > 0
    \/ commitCalls > 0

\* the loader has left: by its return or by its raise
LoaderLeft == cursor = "closed"

InsertRaised(i) == log[i].insert \in {"row_error", "tx_fault", "conn_lost"}
RowSucceeded(i) == log[i].date_time = "parsable" /\ log[i].insert = "ok"

\* C1: when a validation phase fails, no row is inserted and nothing is
\* committed in that run; the loader is reached only after
\* validate_excel_columns, validate_game_types, get_team_lookup and
\* validate_teams_exist have succeeded, in that order.
C1_NoWriteUnlessValidated ==
    /\ failure \in ValidationFailures =>
          /\ ~LoaderReached
          /\ txRows = << >>
          /\ games = {}
    /\ LoaderReached =>
          /\ Len(passed) >= Len(ValidationPhases)
          /\ SubSeq(passed, 1, Len(ValidationPhases)) = ValidationPhases

C1_Witness ==
    /\ pc = "exited"
    /\ failure = "team_reference"
    /\ nrows > 0
    /\ Len(log) = 0
    /\ commitCalls = 0

\* C2: when the commit succeeds, every row was taken once, in input order;
\* a row whose date and time do not parse is counted as an error and is not
\* inserted; a row whose insert raises is counted as an error and the loop
\* goes on; success_count + error_count is the number of rows; the durable
\* rows are the rows whose derivation and insert succeeded, each once, with
\* status 'scheduled'.
C2_LoadAccounting ==
    uploadResult.kind = "return" =>
        /\ Len(log) = nrows
        /\ \A i \in 1..nrows : log[i].row = i
        /\ \A i \in 1..nrows :
              log[i].date_time = "unparsable" =>
                  /\ log[i].insert = "none"
                  /\ [row |-> i + 1, what |-> "kickoff"] \in Range(errors)
        /\ \A i \in 1..nrows :
              InsertRaised(i) => \E k \in DOMAIN errors : errors[k].row = i + 1
        /\ success_count + error_count = nrows
        /\ games = {[row |-> i, status |-> "scheduled"] :
                        i \in {j \in 1..nrows : RowSucceeded(j)}}
        /\ success_count = Cardinality(games)

\* five rows, the third failing derivation and the fifth failing insertion
C2_Witness ==
    /\ LoaderLeft
    /\ uploadResult.kind = "return"
    /\ nrows = 5
    /\ Len(log) = 5
    /\ log[3].date_time = "unparsable"
    /\ log[5].insert = "row_error"
    /\ \A i \in {1, 2, 4} : RowSucceeded(i)
    /\ success_count = 3
    /\ error_count = 2
    /\ Cardinality(games) = 3

\* C3: when the transaction mechanism raised during the load loop, the
\* transaction is rolled back, no row of the call is durable and the loader
\* raises instead of returning.
C3_TransactionFaultRollsBack ==
    (LoaderLeft /\ \E i \in DOMAIN log : log[i].insert \in {"tx_fault", "conn_lost"}) =>
        /\ rollbackCalls = 1
        /\ games = {}
        /\ uploadResult.kind = "raise"

\* C4: a connection that was opened is closed when the process exits.
C4_ConnectionClosedAtExit ==
    (pc = "exited" /\ connection /= "none") => connection = "closed"

\* C5: the exit status is 0 exactly when the run completed the load and the
\* summary, and 1 in every other case.
C5_ExitStatus ==
    pc = "exited" =>
        /\ exitCode \in {0, 1}
        /\ exitCode = 0 <=>
              (summary /\ uploadResult.kind = "return" /\ failure = "none")
        /\ failure /= "none" => exitCode = 1

\* a completed run with row failures still exits 0
C5_Witness ==
    /\ pc = "exited"
    /\ exitCode = 0
    /\ error_count > 0
    /\ success_count > 0

\* C7 as stated: on both paths the loader returns the two counts and the
\* list of failure descriptions.
C7_ReturnsCountsAndListOnBothPaths ==
    LoaderLeft =>
        /\ uploadResult.kind = "return"
        /\ Len(uploadResult.value) = 3
        /\ uploadResult.value[1] = success_count
        /\ uploadResult.value[2] = error_count
        /\ uploadResult.value[3] = errors

\* C7 amended: on the commit path the loader returns the pair
\* (success_count, error_count) and nothing else, the counts being those of
\* the rows that succeeded and failed; on the rollback path it returns
\* nothing and raises.  The failure list has one entry per failed row, in
\* input order, and stays inside the loader.
C7_ReturnsCountsOnCommitPath ==
    LoaderLeft =>
        /\ uploadResult.kind \in {"return", "raise"}
        /\ uploadResult.kind = "return" =>
              /\ commitCalls = 1 /\ rollbackCalls = 0
              /\ uploadResult.value =
                    << Cardinality({i \in DOMAIN log : RowSucceeded(i)}),
                       Cardinality({i \in DOMAIN log : ~RowSucceeded(i)}) >>
        /\ uploadResult.kind = "raise" =>
              /\ rollbackCalls = 1
              /\ uploadResult.value = << >>
        /\ Len(errors) = Cardinality({i \in DOMAIN log : ~RowSucceeded(i)})
        /\ \A k \in DOMAIN errors : ~RowSucceeded(errors[k].row - 1)
        /\ \A k, m \in DOMAIN errors : k < m => errors[k].row < errors[m].row

C7_Witness ==
    /\ LoaderLeft
    /\ uploadResult.kind = "return"
    /\ uploadResult.value = << 2, 2 >>
    /\ Len(errors) = 2

TenRequired ==
    {"nfl_game_id", "season_year", "week", "game_type", "home_team_id",
     "home_team", "away_team_id", "away_team", "game_date", "game_time_et"}

\* C8: validate_excel_columns fails iff a required column is absent, the
\* error then names exactly the missing required columns, and extra columns
\* never make it fail.
C8_MissingColumnsAllNamed ==
    c_pc = "done" =>
        /\ c_result.kind = "raise" <=> (TenRequired \ c_columns) /= {}
        /\ c_result.kind = "return" <=> TenRequired \subseteq c_columns
        /\ c_result.kind = "raise" =>
              /\ Range(c_result.missing) = TenRequired \ c_columns
              /\ Len(c_result.missing) = Cardinality(TenRequired \ c_columns)

\* three required columns missing, an extra column present
C8_Witness ==
    /\ c_pc = "done"
    /\ c_result.kind = "raise"
    /\ Len(c_result.missing) = 3
    /\ "notes" \in c_columns

(***************************************************************************)
(* Properties of get_team_lookup and validate_teams_exist (SpecTeams)      *)
(***************************************************************************)
\* the id-to-code mapping validate_teams_exist works with
IdKnown(id) == \E a \in DOMAIN t_lookup : t_lookup[a] = id
CodeOf(id) == CHOOSE a \in DOMAIN t_lookup : t_lookup[a] = id

SideId(i, side) ==
    IF side = "Home" THEN t_rows[i].home_team_id ELSE t_rows[i].away_team_id
SideCode(i, side) ==
    IF side = "Home" THEN t_rows[i].home_team ELSE t_rows[i].away_team

\* the recorded errors of one side of one row
SideErrors(i, side) ==
    SelectSeq(t_result.errors, LAMBDA e : e.row = i + 1 /\ e.side = side)

SideFlagged(i, side) == SideErrors(i, side) /= << >>

C9_AcceptsExactlyDirectoryEntries ==
    t_pc = "done" =>
        \A i \in DOMAIN t_rows : \A side \in {"Home", "Away"} :
            ~SideFlagged(i, side) <=>
                \E k \in DOMAIN t_directory :
                    /\ t_directory[k].team_id = SideId(i, side)
                    /\ t_directory[k].abbreviation = SideCode(i, side)

====
